---- MODULE Spec2Model ----
(***************************************************************************)
(* Model of the Modbus-TCP monitor, v0.8.0 (src/ModbusPyQt/test_0.8.0.py): *)
(* the PLC-address mapping (build_mapping, plc_to_modbus), the point       *)
(* loader (load_points), the batching of points (_make_batches), the value *)
(* decoder (_decode_value) and the poll loop of ModbusWorker.run with the  *)
(* start/stop handlers of MainWindow.                                      *)
(*                                                                         *)
(* Spreadsheet cells are modelled after pandas has read them: the numeric  *)
(* cells are integers (parse_int's isinstance branch, int(val)), the mem   *)
(* cell is a string that the code upper-cases.                             *)
(***************************************************************************)
EXTENDS Integers, Sequences, FiniteSets, TLC

VARIABLES
    rules,      \* rows of the mapping sheet, as read by pd.read_excel
    mapping,    \* build_mapping's result: mem -> segments sorted by plc_base
    query,      \* arguments of the last plc_to_modbus call
    resolved,   \* outcome of the last plc_to_modbus call
    cfg,        \* rows of the config sheet, as read by pd.read_excel
    worker,     \* whether a ModbusWorker has been constructed
    points,     \* ModbusWorker.points, in declaration order
    batches,    \* ModbusWorker._batches
    pt,         \* _decode_value's argument pt
    data,       \* _decode_value's argument data
    val,        \* outcome of the last _decode_value call
    device,     \* the PLC's registers, coils and discrete inputs
    running,    \* ModbusWorker._running
    pc,         \* the await at which ModbusWorker.run is suspended
    client,     \* state of the AsyncModbusTcpClient of run
    bi,         \* index in _batches of the read that is awaited
    batch_data, \* run's dict batch_data of the current tick
    reads,      \* what the reads of the current tick returned, in order
    header,     \* labels of the CSV header row (after "timestamp")
    row,        \* run's row_vals: the values of the row written in this tick
    calls,      \* the read calls issued in the current tick, in order
    late_rows,  \* rows written since stop() was called on the worker
    log,        \* the session's log_ready notices other than rows, in order
    tasks,      \* run coroutines created by create_task and not yet returned
    dialog      \* the QMessageBox shown by the last start_poll, if any

mapVars == <<rules, mapping, query, resolved>>
planVars == <<cfg, worker, points, batches>>
decVars == <<pt, data, val>>
runVars ==
    <<device, running, pc, client, bi, batch_data, reads, header, row, calls,
      late_rows, log, tasks, dialog>>

vars == <<mapVars, planVars, decVars, runVars>>

(* What the actions of one specification leave alone. *)
outsideMap == <<planVars, decVars, runVars>>
outsideBatch == <<mapVars, decVars, runVars>>
outsideDecode == <<mapVars, planVars, runVars>>
outsideRun == <<mapVars, decVars>>

----------------------------------------------------------------------------
(* Outcomes of a Python call: a returned value, a raised exception, or no  *)
(* call made yet.                                                          *)
Ret(v) == [ret |-> v]
Raise(e) == [raised |-> e]
NoCall == [pending |-> TRUE]
Returned(r) == "ret" \in DOMAIN r
Raised(r) == "raised" \in DOMAIN r

Last(s) == s[Len(s)]
Front(s) == SubSeq(s, 1, Len(s) - 1)

(* str.upper() on the mem cells that occur in the sheets. *)
Upper(s) ==
    CASE s = "d" -> "D"
      [] s = "m" -> "M"
      [] s = "x" -> "X"
      [] OTHER -> s

----------------------------------------------------------------------------
(* build_mapping *)

(* A variant of the sort that puts an element before those of equal key. *)
InsertSegBeforeEqual(s, x) ==
    LET n == Cardinality({i \in 1..Len(s) : s[i].plc_base < x.plc_base})
    IN  SubSeq(s, 1, n) \o <<x>> \o SubSeq(s, n + 1, Len(s))

(* list.sort(key=plc_base) is stable: an element goes after the elements   *)
(* of the sorted prefix whose key is not greater.                          *)
InsertSeg(s, x) ==
    LET n == Cardinality({i \in 1..Len(s) : s[i].plc_base <= x.plc_base})
    IN  SubSeq(s, 1, n) \o <<x>> \o SubSeq(s, n + 1, Len(s))

RECURSIVE SortSegs(_)
SortSegs(s) ==
    IF s = <<>> THEN <<>> ELSE InsertSeg(SortSegs(Front(s)), Last(s))

(* One segment dict of a mapping row. *)
SegOf(r) ==
    [plc_base |-> r.plc_addr, mb_base |-> r.start_number,
     count |-> r.assignment_points]

(* mp.setdefault(mem, []).append(seg) over the rows, in row order. *)
RowsOf(rows, mem) ==
    SelectSeq(rows, LAMBDA r : Upper(r.mem) = mem)

SegsOf(rows) ==
    [i \in 1..Len(rows) |-> SegOf(rows[i])]

build_mapping(rows) ==
    LET mems == {Upper(rows[i].mem) : i \in 1..Len(rows)}
    IN  [m \in mems |-> SortSegs(SegsOf(RowsOf(rows, m)))]

----------------------------------------------------------------------------
(* plc_to_modbus *)

SegCovers(seg, plc_addr) ==
    seg.plc_base <= plc_addr /\ plc_addr < seg.plc_base + seg.count

SegCoversInclusive(seg, plc_addr) ==
    seg.plc_base <= plc_addr /\ plc_addr <= seg.plc_base + seg.count

SegOffsetNoBase(seg, plc_addr) ==
    seg.mb_base + plc_addr

(* A variant that returns the segment's first offset for every address. *)
SegOffsetBaseOnly(seg, plc_addr) ==
    seg.mb_base

SegOffset(seg, plc_addr) ==
    seg.mb_base + (plc_addr - seg.plc_base)

(* A variant of the segment test with an inclusive upper end. *)
FirstCoverInclusive(segs, plc_addr) ==
    LET hits == {i \in 1..Len(segs) : SegCoversInclusive(segs[i], plc_addr)}
    IN  IF hits = {} THEN 0 ELSE CHOOSE i \in hits : \A j \in hits : i <= j

(* Index of the first segment, in list order, whose range holds plc_addr;  *)
(* 0 when the for loop falls through.                                      *)
FirstCover(segs, plc_addr) ==
    LET hits == {i \in 1..Len(segs) : SegCovers(segs[i], plc_addr)}
    IN  IF hits = {} THEN 0 ELSE CHOOSE i \in hits : \A j \in hits : i <= j

plc_to_modbus(mem, plc_addr, mp) ==
    IF mem \notin DOMAIN mp
    THEN Raise("KeyError")
    ELSE LET k == FirstCover(mp[mem], plc_addr)
         IN  IF k = 0
             THEN Raise("ValueError")
             ELSE Ret(SegOffset(mp[mem][k], plc_addr))

----------------------------------------------------------------------------
(* load_points *)

MEM_METHOD ==
    [m \in {"M", "L", "Y", "X", "D"} |->
        CASE m = "X" -> "read_discrete_inputs"
          [] m = "D" -> "read_holding_registers"
          [] OTHER -> "read_coils"]

(* A 'type' cell is empty (NaN), a number or a string. *)
NaNCell == [kind |-> "nan"]
NumCell(n) == [kind |-> "num", val |-> n]
StrCell(t) == [kind |-> "str", text |-> t]

(* str(int(tp_val)) of a numeric cell. *)
IntStr(n) ==
    CASE n = 16 -> "16"
      [] n = 32 -> "32"
      [] OTHER -> "?"

(* str(tp_val).strip().lower() on the strings that occur in the sheets. *)
StripLower(t) ==
    CASE t = "S16" -> "s16"
      [] t = " s16 " -> "s16"
      [] t = "U16" -> "u16"
      [] t = "INT16" -> "int16"
      [] t = "UINT16" -> "uint16"
      [] OTHER -> t

(* A variant that compares the cell's text as it is written. *)
NormalizeExact(tp_val) ==
    IF tp_val.kind = "nan"
    THEN ""
    ELSE LET tp == IF tp_val.kind = "num"
                   THEN IntStr(tp_val.val)
                   ELSE tp_val.text
         IN  IF tp \in {"16", "s16", "int16"} THEN "s16"
             ELSE IF tp \in {"u16", "uint16"} THEN "u16"
             ELSE ""

_normalize_type(tp_val) ==
    IF tp_val.kind = "nan"
    THEN ""
    ELSE LET tp == IF tp_val.kind = "num"
                   THEN IntStr(tp_val.val)
                   ELSE StripLower(tp_val.text)
         IN  IF tp \in {"16", "s16", "int16"} THEN "s16"
             ELSE IF tp \in {"u16", "uint16"} THEN "u16"
             ELSE ""

(* size, fmt of a point: lines 128-137. *)
TypeOf(mem, tp_val) ==
    IF mem = "D"
    THEN LET tp_norm == _normalize_type(tp_val)
         IN  IF tp_norm = "s16" THEN [size |-> 1, fmt |-> "s16"]
             ELSE IF tp_norm = "u16" THEN [size |-> 1, fmt |-> "u16"]
             ELSE [size |-> 2, fmt |-> "s32"]
    ELSE [size |-> 1, fmt |-> "bit"]

(* One iteration of the loop over the config rows: the ModbusPoint of row  *)
(* i, or the exception the row raises.  id stands for the identity of the  *)
(* Python object; the label is the default f"{mem}{plc_addr}".             *)
PointOf(i, r, mp) ==
    LET mem == Upper(r.mem)
        mb_addr == plc_to_modbus(mem, r.plc_addr, mp)
    IN  IF Raised(mb_addr) THEN mb_addr
        ELSE IF mem \notin DOMAIN MEM_METHOD THEN Raise("ValueError")
        ELSE LET t == TypeOf(mem, r.type)
             IN  Ret([id |-> i, label |-> <<mem, r.plc_addr>>,
                      method |-> MEM_METHOD[mem], offset |-> mb_addr.ret,
                      size |-> t.size, fmt |-> t.fmt,
                      mem |-> mem, plc_addr |-> r.plc_addr])

(* A variant that leaves out the rows that raise and returns the rest. *)
load_points_partial(mp_df, cfg_df) ==
    LET mp == build_mapping(mp_df)
        outs == [i \in 1..Len(cfg_df) |-> PointOf(i, cfg_df[i], mp)]
        good == SelectSeq(outs, Returned)
    IN  Ret([i \in 1..Len(good) |-> good[i].ret])

load_points(mp_df, cfg_df) ==
    LET mp == build_mapping(mp_df)
        outs == [i \in 1..Len(cfg_df) |-> PointOf(i, cfg_df[i], mp)]
        bad == {i \in 1..Len(cfg_df) : Raised(outs[i])}
    IN  IF bad # {}
        THEN outs[CHOOSE i \in bad : \A j \in bad : i <= j]
        ELSE Ret([i \in 1..Len(cfg_df) |-> outs[i].ret])

----------------------------------------------------------------------------
(* ModbusWorker._make_batches *)

(* The keys of grouped, in the order a dict keeps them: first appearance.  *)
RECURSIVE MethodOrder(_)
MethodOrder(pts) ==
    IF pts = <<>> THEN <<>>
    ELSE LET rest == MethodOrder(Front(pts))
             m == Last(pts).method
         IN  IF \E k \in 1..Len(rest) : rest[k] = m THEN rest
             ELSE Append(rest, m)

Grouped(pts, method) ==
    SelectSeq(pts, LAMBDA p : p.method = method)

(* pts.sort(key=offset): stable. *)
InsertPt(s, x) ==
    LET n == Cardinality({i \in 1..Len(s) : s[i].offset <= x.offset})
    IN  SubSeq(s, 1, n) \o <<x>> \o SubSeq(s, n + 1, Len(s))

RECURSIVE SortPts(_)
SortPts(s) ==
    IF s = <<>> THEN <<>> ELSE InsertPt(SortPts(Front(s)), Last(s))

(* A variant that never merges. *)
AdjacentNever(p, end) == FALSE

(* A variant that also merges a point that starts before end. *)
AdjacentOrBefore(p, end) ==
    p.offset <= end

(* The merge test of the inner while: the next point starts at end. *)
Adjacent(p, end) ==
    p.offset = end

(* The inner while loop from index i with the running end: the index after *)
(* the last merged point and the final end.                                *)
RECURSIVE Extend(_, _, _)
Extend(pts, i, end) ==
    IF i <= Len(pts) /\ Adjacent(pts[i], end)
    THEN Extend(pts, i + 1, end + pts[i].size)
    ELSE [i |-> i, end |-> end]

(* The outer while loop from index i. *)
RECURSIVE Scan(_, _, _)
Scan(method, pts, i) ==
    IF i > Len(pts) THEN <<>>
    ELSE LET start == pts[i].offset
             e == Extend(pts, i + 1, start + pts[i].size)
         IN  <<[method |-> method, start |-> start, count |-> e.end - start,
               points |-> SubSeq(pts, i, e.i - 1)]>>
             \o Scan(method, pts, e.i)

RECURSIVE BatchesOf(_, _)
BatchesOf(pts, methods) ==
    IF methods = <<>> THEN <<>>
    ELSE BatchesOf(pts, Front(methods))
         \o Scan(Last(methods), SortPts(Grouped(pts, Last(methods))), 1)

_make_batches(pts) ==
    BatchesOf(pts, MethodOrder(pts))

----------------------------------------------------------------------------
(* ModbusWorker._decode_value *)

(* x & y and x | y on non-negative integers, bit by bit. *)
RECURSIVE BitAnd(_, _)
BitAnd(x, y) ==
    IF x = 0 \/ y = 0 THEN 0
    ELSE (IF x % 2 = 1 /\ y % 2 = 1 THEN 1 ELSE 0)
         + 2 * BitAnd(x \div 2, y \div 2)

RECURSIVE BitOr(_, _)
BitOr(x, y) ==
    IF x = 0 THEN y
    ELSE IF y = 0 THEN x
    ELSE (IF x % 2 = 1 \/ y % 2 = 1 THEN 1 ELSE 0)
         + 2 * BitOr(x \div 2, y \div 2)

U16Identity(x) == x

(* _u16_to_s16 = lambda x: x - 0x10000 if x & 0x8000 else x *)
_u16_to_s16(x) ==
    IF BitAnd(x, 32768) # 0 THEN x - 65536 ELSE x

(* (high << 16) | low.  The 32-bit pattern exceeds the integers of the     *)
(* model checker, so it is carried as its two 16-bit halves: the low half  *)
(* is low | 0, the high half is high | (low >> 16), and low >> 16 is 0 for *)
(* a register, which is a 16-bit word.                                     *)
ShlOr(high, low) ==
    [hi |-> BitOr(high, low \div 65536), lo |-> BitOr(0, low % 65536)]

(* A conversion that clears bit 31 instead of reading it as the sign. *)
U32SignCleared(x) == (x.hi % 32768) * 65536 + x.lo

(* _u32_to_s32 = lambda x: x - 0x100000000 if x & 0x80000000 else x, on    *)
(* the halves: bit 31 of x is bit 15 of the high half, and                 *)
(* x - 0x100000000 = (hi - 0x10000) * 0x10000 + lo.                        *)
_u32_to_s32(x) ==
    IF BitAnd(x.hi, 32768) # 0
    THEN (x.hi - 65536) * 65536 + x.lo
    ELSE x.hi * 65536 + x.lo

(* list[idx] of Python: a negative index counts from the end. *)
PyGet(list, idx) ==
    IF 0 <= idx /\ idx < Len(list) THEN Ret(list[idx + 1])
    ELSE IF idx < 0 /\ 0 - Len(list) <= idx THEN Ret(list[Len(list) + idx + 1])
    ELSE Raise("IndexError")

(* data[key] of a dict. *)
DictGet(d, key) ==
    IF key \in DOMAIN d THEN Ret(d[key]) ELSE Raise("KeyError")

(* The 32-bit branch with the two words taken in the other order. *)
DecodeS32HighFirst(regs, idx) ==
    LET high == PyGet(regs, idx)
        low == PyGet(regs, idx + 1)
    IN  IF Raised(low) THEN low
        ELSE IF Raised(high) THEN high
        ELSE Ret(_u32_to_s32(ShlOr(high.ret, low.ret)))

(* Lines 195-198: the 32-bit branch. *)
DecodeS32(regs, idx) ==
    LET low == PyGet(regs, idx)
        high == PyGet(regs, idx + 1)
    IN  IF Raised(low) THEN low
        ELSE IF Raised(high) THEN high
        ELSE Ret(_u32_to_s32(ShlOr(high.ret, low.ret)))

(* A variant that sign-extends every 1-unit register point. *)
DecodeWordSigned(p, raw) ==
    Ret(_u16_to_s16(raw.ret))

(* Lines 191-193: a 1-unit register point from its raw word. *)
DecodeWord(p, raw) ==
    IF p.fmt = "s16" THEN Ret(_u16_to_s16(raw.ret)) ELSE raw

(* A variant that takes the point's units from the head of the result,     *)
(* whatever the result's start is.                                         *)
DecodeFromHead(p, d) ==
    LET start == DictGet(d, "start")
        idx == 0
    IN  IF Raised(start) THEN start
        ELSE IF p.method \in {"read_coils", "read_discrete_inputs"}
        THEN LET bits == DictGet(d, "bits")
                 b == PyGet(bits.ret, idx)
             IN  IF Raised(bits) THEN bits
                 ELSE IF Raised(b) THEN b
                 ELSE Ret(IF b.ret THEN 1 ELSE 0)
        ELSE LET regs == DictGet(d, "regs")
             IN  IF Raised(regs) THEN regs
                 ELSE IF p.size = 1
                 THEN LET raw == PyGet(regs.ret, idx)
                      IN  IF Raised(raw) THEN raw
                          ELSE DecodeWord(p, raw)
                 ELSE DecodeS32(regs.ret, idx)

(* Lines 183-198. *)
_decode_value(p, d) ==
    LET start == DictGet(d, "start")
        idx == p.offset - start.ret
    IN  IF Raised(start) THEN start
        ELSE IF p.method \in {"read_coils", "read_discrete_inputs"}
        THEN LET bits == DictGet(d, "bits")
                 b == PyGet(bits.ret, idx)
             IN  IF Raised(bits) THEN bits
                 ELSE IF Raised(b) THEN b
                 ELSE Ret(IF b.ret THEN 1 ELSE 0)
        ELSE LET regs == DictGet(d, "regs")
             IN  IF Raised(regs) THEN regs
                 ELSE IF p.size = 1
                 THEN LET raw == PyGet(regs.ret, idx)
                      IN  IF Raised(raw) THEN raw
                          ELSE DecodeWord(p, raw)
                 ELSE DecodeS32(regs.ret, idx)

----------------------------------------------------------------------------
(* Inputs of the mapping specification. *)

MaxRules == 2

RuleMems == {"d", "M"}
RuleBases == {100, 102}
RuleStarts == {0, 10}
RuleCounts == {-1, 0, 2, 5}

RuleRows ==
    [mem : RuleMems, plc_addr : RuleBases, start_number : RuleStarts,
     assignment_points : RuleCounts]

RuleLists ==
    UNION {[1..n -> RuleRows] : n \in 0..MaxRules}

QueryMems == {"D", "M"}
QueryAddrs == 99..107

NoMapping == [unbuilt |-> TRUE]
NoQuery == [mem |-> "", plc_addr |-> 0]
MapBuilt == "unbuilt" \notin DOMAIN mapping

PlanBuilt == worker # "None"

PlanIdle ==
    /\ cfg = <<>>
    /\ worker = "None"
    /\ points = <<>>
    /\ batches = <<>>

MapIdle ==
    /\ mapping = NoMapping
    /\ query = NoQuery
    /\ resolved = NoCall

NoPoint == [none |-> TRUE]
NoData == [none |-> TRUE]

DecodeIdle ==
    /\ pt = NoPoint
    /\ data = NoData
    /\ val = NoCall

EmptyDict == [k \in {} |-> 0]

RunIdle ==
    /\ device = [link |-> "up", regs |-> <<>>, coils |-> <<>>, inputs |-> <<>>]
    /\ running = FALSE
    /\ pc = "none"
    /\ client = "none"
    /\ bi = 0
    /\ batch_data = EmptyDict
    /\ reads = <<>>
    /\ header = <<>>
    /\ row = <<>>
    /\ calls = <<>>
    /\ late_rows = 0
    /\ log = <<>>
    /\ tasks = 0
    /\ dialog = "none"

MapInit ==
    /\ rules \in RuleLists
    /\ mapping = NoMapping
    /\ query = NoQuery
    /\ resolved = NoCall
    /\ PlanIdle
    /\ DecodeIdle
    /\ RunIdle

(* load_points line 115: mapping = build_mapping(mp_df) *)
BuildMapping ==
    /\ ~MapBuilt
    /\ mapping' = build_mapping(rules)
    /\ UNCHANGED <<rules, query, resolved, outsideMap>>

(* load_points line 122: mb_addr = plc_to_modbus(mem, plc_addr, mapping) *)
Resolve ==
    /\ MapBuilt
    /\ \E mem \in QueryMems, a \in QueryAddrs :
          /\ query' = [mem |-> mem, plc_addr |-> a]
          /\ resolved' = plc_to_modbus(mem, a, mapping)
    /\ UNCHANGED <<rules, mapping, outsideMap>>

MapNext == BuildMapping \/ Resolve

SpecMap == MapInit /\ [][MapNext]_vars

----------------------------------------------------------------------------
(* Inputs of the batching specification: a mapping sheet and the config    *)
(* sheets of at most MaxPts rows over it.                                  *)

MaxPts == 3

MapRow(mem, base, start, n) ==
    [mem |-> mem, plc_addr |-> base, start_number |-> start,
     assignment_points |-> n]

CfgRow(mem, a, tp) ==
    [mem |-> mem, plc_addr |-> a, type |-> tp]

(* D100..D103 are holding registers 10..13, M0..M1 coils 10..11, X0 the    *)
(* discrete input 10; Q has segments but no access method.                 *)
SheetRules ==
    <<MapRow("d", 100, 10, 4), MapRow("M", 0, 10, 2), MapRow("X", 0, 10, 1),
      MapRow("Q", 0, 0, 1)>>

BatchRows ==
    {CfgRow("D", a, tp) : a \in 100..103, tp \in {NaNCell, NumCell(16)}}
    \cup {CfgRow("d", 101, StrCell("U16")),
          CfgRow("M", 0, NaNCell), CfgRow("M", 1, NaNCell),
          CfgRow("X", 0, NaNCell)}

BatchCfgs ==
    UNION {[1..n -> BatchRows] : n \in 0..MaxPts}

(* The sequence with the elements at i and j exchanged; every order of the *)
(* points is reached by such exchanges.                                    *)
Swap(s, i, j) ==
    [k \in 1..Len(s) |-> IF k = i THEN s[j] ELSE IF k = j THEN s[i] ELSE s[k]]

BatchInit ==
    /\ rules = SheetRules
    /\ MapIdle
    /\ DecodeIdle
    /\ RunIdle
    /\ cfg \in BatchCfgs
    /\ worker = "None"
    /\ points = <<>>
    /\ batches = <<>>

(* start_poll lines 342 and 347: the points are loaded and the worker's    *)
(* constructor computes the batches.                                       *)
LoadAndBatch ==
    /\ ~PlanBuilt
    /\ LET r == load_points(rules, cfg)
       IN  /\ Returned(r)
           /\ worker' = "ModbusWorker"
           /\ points' = r.ret
           /\ batches' = _make_batches(r.ret)
    /\ UNCHANGED <<outsideBatch, cfg>>

(* _make_batches applied to the same points in another order. *)
Rebatch ==
    /\ PlanBuilt
    /\ \E i, j \in 1..Len(points) :
          /\ i < j
          /\ points' = Swap(points, i, j)
          /\ points' # points
          /\ batches' = _make_batches(points')
    /\ UNCHANGED <<outsideBatch, cfg, worker>>

BatchNext == LoadAndBatch \/ Rebatch

SpecBatch == BatchInit /\ [][BatchNext]_vars

----------------------------------------------------------------------------
(* Inputs of the type specification: config sheets of at most MaxTypeRows  *)
(* rows over every memory type and over type cells of every kind.          *)

MaxTypeRows == 1

TypeRules ==
    <<MapRow("D", 100, 10, 4), MapRow("M", 0, 10, 2), MapRow("L", 0, 20, 2),
      MapRow("Y", 0, 30, 2), MapRow("X", 0, 10, 2)>>

TypeTexts ==
    {"16", "s16", "int16", "u16", "uint16", "S16", " s16 ", "INT16", "U16",
     "UINT16", "32", "s32", "float", ""}

TypeCells ==
    {NaNCell, NumCell(16), NumCell(32)} \cup {StrCell(t) : t \in TypeTexts}

TypeRows ==
    {CfgRow(m, 100, tp) : m \in {"D", "d"}, tp \in TypeCells}
    \cup {CfgRow(m, 0, tp) : m \in {"M", "L", "Y", "X"}, tp \in TypeCells}

TypeCfgs ==
    UNION {[1..n -> TypeRows] : n \in 1..MaxTypeRows}

TypeInit ==
    /\ rules = TypeRules
    /\ MapIdle
    /\ DecodeIdle
    /\ RunIdle
    /\ cfg \in TypeCfgs
    /\ worker = "None"
    /\ points = <<>>
    /\ batches = <<>>

TypeNext == LoadAndBatch

SpecType == TypeInit /\ [][TypeNext]_vars

----------------------------------------------------------------------------
(* Claims about _make_batches *)

BatchIdx == IF PlanBuilt THEN 1..Len(batches) ELSE {}
PointIdx == IF PlanBuilt THEN 1..Len(points) ELSE {}

(* The batches whose range [start, start+count) holds the whole footprint  *)
(* [offset, offset+size) of the point.                                     *)
Covering(p) ==
    {k \in BatchIdx :
        /\ batches[k].method = p.method
        /\ batches[k].start <= p.offset
        /\ p.offset + p.size <= batches[k].start + batches[k].count}

(* C3: for every point list and every point in it, exactly one batch of    *)
(* the point's access method has a range that fully contains the point's   *)
(* footprint.                                                              *)
C3_ExactlyOneCoveringBatch ==
    \A i \in PointIdx : Cardinality(Covering(points[i])) = 1

(* C4: the batches of one access method appear in strictly ascending order *)
(* of start and their ranges are pairwise non-overlapping.                 *)
C4_BatchesAscendingDisjoint ==
    \A j, k \in BatchIdx :
        (j < k /\ batches[j].method = batches[k].method) =>
            /\ batches[j].start < batches[k].start
            /\ batches[j].start + batches[j].count <= batches[k].start

Triples(bs) ==
    {<<bs[k].method, bs[k].start, bs[k].count>> : k \in 1..Len(bs)}

(* C5: two permutations of the same points give the same collection of     *)
(* (method, start, count) triples: re-batching the points in another order *)
(* leaves the triples as they were.                                        *)
C5_BatchingOrderIndependent ==
    [][(PlanBuilt /\ PlanBuilt') => Triples(batches') = Triples(batches)]_vars

----------------------------------------------------------------------------
(* Inputs of the decoding specification: a point of the sheet and a batch  *)
(* result.  Every 16-bit word is tried on the s16 point; the other cases   *)
(* take their words from EdgeWords.                                        *)

MaxData == 2

EdgeWords == {0, 1, 4660, 32767, 32768, 65534, 65535}

DecodeRows ==
    {CfgRow("D", 100, NaNCell), CfgRow("D", 100, NumCell(16)),
     CfgRow("D", 101, StrCell("u16")), CfgRow("D", 101, NaNCell),
     CfgRow("M", 0, NaNCell), CfgRow("M", 1, NaNCell), CfgRow("X", 0, NaNCell)}

DecodePoints ==
    {PointOf(1, r, build_mapping(SheetRules)).ret : r \in DecodeRows}

RegPoints == {p \in DecodePoints : p.method = "read_holding_registers"}
BitPoints == DecodePoints \ RegPoints

SeqsUpTo(S, n) ==
    UNION {[1..k -> S] : k \in 1..n}

RegData(start, regs) == [start |-> start, regs |-> regs]
BitData(start, bits) == [start |-> start, bits |-> bits]

DecodeInit ==
    /\ rules = SheetRules
    /\ MapIdle
    /\ PlanIdle
    /\ RunIdle
    /\ val = NoCall
    /\ \/ /\ pt \in {p \in RegPoints : p.fmt = "s16"}
          /\ data \in {RegData(pt.offset, <<w>>) : w \in 0..65535}
       \/ /\ pt \in RegPoints
          /\ data \in {RegData(10, regs) : regs \in SeqsUpTo(EdgeWords, MaxData)}
       \/ /\ pt \in BitPoints
          /\ data \in {BitData(10, bits) : bits \in SeqsUpTo(BOOLEAN, MaxData)}

(* run line 240: val = self._decode_value(pt, bdat) *)
Decode ==
    /\ val = NoCall
    /\ val' = _decode_value(pt, data)
    /\ UNCHANGED <<pt, data, outsideDecode>>

DecodeNext == Decode

SpecDecode == DecodeInit /\ [][DecodeNext]_vars

----------------------------------------------------------------------------
(* ModbusWorker.run and the handlers of MainWindow.  run is a coroutine:   *)
(* it is suspended at client.connect(), at each read and at                *)
(* asyncio.sleep(), and the code between two awaits runs without           *)
(* interruption on the event loop, as do the button handlers.              *)

MaxCfg == 3

SessionRows ==
    {CfgRow("D", 100, NaNCell), CfgRow("D", 100, NumCell(16)),
     CfgRow("D", 101, NumCell(16)), CfgRow("d", 102, StrCell("U16")),
     CfgRow("M", 0, NaNCell), CfgRow("D", 104, NaNCell),
     CfgRow("Q", 0, NaNCell)}

SessionCfgs ==
    UNION {[1..n -> SessionRows] : n \in 0..MaxCfg}

(* Contents of the PLC: the registers 10..14 hold 1..5 with the coils and  *)
(* inputs alternating, or they hold words with bit 15 set (0xFFFF twice,   *)
(* then 0x8000 upwards) with the coils set.                                *)
Addrs == 10..14

(* link is how the PLC answers client.connect(): the connection is made,   *)
(* connect returns False, or connect raises.                               *)
Links == {"up", "refused", "fault"}

DeviceImages ==
    {[link |-> "up",
      regs |-> [a \in Addrs |-> a - 9],
      coils |-> [a \in Addrs |-> a % 2 = 0],
      inputs |-> [a \in Addrs |-> a % 2 = 1]],
     [link |-> "up",
      regs |-> [a \in Addrs |-> IF a <= 11 THEN 65535 ELSE 32756 + a],
      coils |-> [a \in Addrs |-> TRUE],
      inputs |-> [a \in Addrs |-> FALSE]]}
    \cup {[link |-> l,
           regs |-> [a \in Addrs |-> a - 9],
           coils |-> [a \in Addrs |-> a % 2 = 0],
           inputs |-> [a \in Addrs |-> a % 2 = 1]] : l \in Links \ {"up"}}

(* What a read of n elements from a batch's start returns on success. *)
ReadData(b, n) ==
    IF b.method = "read_holding_registers"
    THEN RegData(b.start, [i \in 1..n |-> device.regs[b.start + i - 1]])
    ELSE IF b.method = "read_coils"
    THEN BitData(b.start, [i \in 1..n |-> device.coils[b.start + i - 1]])
    ELSE BitData(b.start, [i \in 1..n |-> device.inputs[b.start + i - 1]])

(* A read returns the whole range, an error response, or a response with   *)
(* one element less than asked for; or the call raises.                    *)
ReadOutcomes == {"ok", "error", "short", "raise"}

(* batch_data[key] = value *)
Put(d, key, value) ==
    [k \in DOMAIN d \cup {key} |-> IF k = key THEN value ELSE d[k]]

(* batch_data.get(key, {}) *)
Get(d, key) ==
    IF key \in DOMAIN d THEN d[key] ELSE EmptyDict

(* _batch_start: the start of the first batch, in list order, with the     *)
(* point's method and the point's offset in its range.                     *)
_batch_start(p) ==
    LET hits == {k \in 1..Len(batches) :
                    /\ batches[k].method = p.method
                    /\ batches[k].start <= p.offset
                    /\ p.offset < batches[k].start + batches[k].count}
    IN  IF hits = {} THEN Raise("RuntimeError")
        ELSE Ret(batches[CHOOSE k \in hits : \A j \in hits : k <= j].start)

(* Lines 234-242: the value of one point from the tick's batch_data. *)
PointVal(p, bd) ==
    LET bdat == Get(bd, <<p.method, _batch_start(p).ret>>)
        v == _decode_value(p, bdat)
    IN  IF DOMAIN bdat = {} THEN -1
        ELSE IF Raised(v) THEN -1
        ELSE v.ret

(* The points in the order in which the batches hold them. *)
RECURSIVE BatchPoints(_)
BatchPoints(bs) ==
    IF bs = <<>> THEN <<>> ELSE BatchPoints(Front(bs)) \o Last(bs).points

RowValsBatchOrder(bd) ==
    [i \in 1..Len(points) |-> PointVal(BatchPoints(batches)[i], bd)]

(* Lines 232-243: row_vals, one value per point of self.points in order. *)
RowVals(bd) ==
    [i \in 1..Len(points) |-> PointVal(points[i], bd)]

(* _batch_start raises for some point: the exception leaves the loop. *)
RowRaises ==
    \E i \in 1..Len(points) : Raised(_batch_start(points[i]))

Labels(pts) ==
    [i \in 1..Len(pts) |-> pts[i].label]

(* A variant that asks for one element whatever the batch's count is. *)
CallOfOne(b) == <<b.method, b.start, 1>>

(* The read call issued for a batch: line 218. *)
CallOf(b) == <<b.method, b.start, b.count>>

(* Line 204: the truth value of what client.connect() returned. *)
ConnectAlways(link) == TRUE

ConnectOk(link) == link = "up"

(* Line 214: the loop test, while self._running. *)
LoopTestAlways == TRUE

LoopTest == running

(* Line 218: the awaited read raises instead of returning a response. *)
FatalNever(out) == FALSE

Fatal(out) == out = "raise"

(* Line 336: start_poll goes on only when self.worker is not set. *)
IdleAlways == TRUE

Idle == worker = "None"

(* Line 361: what on_finished leaves in MainWindow.worker. *)
SlotUnconnected == worker

on_finished == "None"

(* A worker whose loop drops the batch it has just served. *)
PlanShrunk ==
    /\ points' = points
    /\ batches' = IF batches = <<>> THEN batches ELSE Tail(batches)

(* Lines 155-156 and 201-255: stop and run read self.points and            *)
(* self._batches and assign neither; both keep what __init__ gave them.    *)
PlanKept ==
    /\ points' = points
    /\ batches' = batches

(* The variables run changes up to its next await. *)
Suspend(pc2, client2, bi2, bd2, reads2, row2, worker2) ==
    /\ pc' = pc2
    /\ client' = client2
    /\ bi' = bi2
    /\ batch_data' = bd2
    /\ reads' = reads2
    /\ row' = row2
    /\ worker' = worker2

(* client.close() returns, or it raises. *)
CloseOutcomes == {"closed", "close_raised"}

(* A finally block without the suppress: an exception of close() leaves    *)
(* run before finished is emitted.                                         *)
FinishUnsuppressed(bd2, reads2, log2) ==
    \E c \in CloseOutcomes :
        /\ Suspend("done", c, bi, bd2, reads2, row,
                   IF c = "closed" THEN on_finished ELSE worker)
        /\ log' = IF c = "closed" THEN Append(log2, "finished") ELSE log2
        /\ tasks' = tasks - 1
        /\ UNCHANGED <<calls, late_rows>>

(* Lines 250-255 and on_finished: close() is called on the transport and   *)
(* an exception it raises is suppressed; finished is emitted and its slot  *)
(* clears MainWindow.worker and logs the end of the session; run returns.  *)
(* log2 is the log up to there.                                            *)
Finish(bd2, reads2, log2) ==
    \E c \in CloseOutcomes :
        /\ Suspend("done", c, bi, bd2, reads2, row, on_finished)
        /\ log' = Append(log2, "finished")
        /\ tasks' = tasks - 1
        /\ UNCHANGED <<calls, late_rows>>

(* Lines 247-249: the row is written and run sleeps. *)
WriteRow(bd2, reads2, log2) ==
    /\ Suspend("sleep", "connected", bi, bd2, reads2, RowVals(bd2), worker)
    /\ late_rows' = IF running THEN late_rows ELSE late_rows + 1
    /\ log' = log2
    /\ tasks' = tasks

(* Lines 214-249 from the loop test to the next await: leave the loop when *)
(* stop() was called; otherwise start a tick, which issues the first read  *)
(* or, without batches, writes its row and sleeps at once.  log2 is the    *)
(* log up to the loop test.                                                *)
LoopHead(log2) ==
    IF ~LoopTest THEN Finish(batch_data, reads, log2)
    ELSE IF batches = <<>>
    THEN IF RowRaises THEN Finish(EmptyDict, <<>>, Append(log2, "exception"))
         ELSE /\ WriteRow(EmptyDict, <<>>, log2)
              /\ calls' = <<>>
    ELSE /\ Suspend("read", "connected", 1, EmptyDict, <<>>, <<>>, worker)
         /\ calls' = <<CallOf(batches[1])>>
         /\ log' = log2
         /\ UNCHANGED <<late_rows, tasks>>

Init ==
    /\ rules = SheetRules
    /\ MapIdle
    /\ DecodeIdle
    /\ cfg \in SessionCfgs
    /\ device \in DeviceImages
    /\ worker = "None"
    /\ points = <<>>
    /\ batches = <<>>
    /\ running = FALSE
    /\ pc = "none"
    /\ client = "none"
    /\ bi = 0
    /\ batch_data = EmptyDict
    /\ reads = <<>>
    /\ header = <<>>
    /\ row = <<>>
    /\ calls = <<>>
    /\ late_rows = 0
    /\ log = <<>>
    /\ tasks = 0
    /\ dialog = "none"

(* A window that hands the plan of its last worker to the next one. *)
WorkerWithOldPlan(pts) ==
    IF pc = "done"
    THEN [points |-> points, batches |-> batches]
    ELSE [points |-> pts, batches |-> _make_batches(pts)]

(* ModbusWorker.__init__, lines 148-153: the worker keeps the point list   *)
(* it is given and the batches made of it.                                 *)
ModbusWorker(pts) ==
    [points |-> pts, batches |-> _make_batches(pts)]

(* MainWindow.start_poll with no worker: the points are loaded, the worker *)
(* is constructed with its batches and run is scheduled.  The test of the  *)
(* interval at line 338 never succeeds: the spin box holds 0.05 at least.  *)
StartPoll ==
    /\ Idle
    /\ LET r == load_points(rules, cfg)
       IN  /\ Returned(r)
           /\ points' = ModbusWorker(r.ret).points
           /\ batches' = ModbusWorker(r.ret).batches
    /\ running' = TRUE
    /\ header' = <<>>
    /\ Suspend("connect", "none", 0, EmptyDict, <<>>, <<>>, "ModbusWorker")
    /\ calls' = <<>>
    /\ late_rows' = 0
    /\ log' = <<>>
    /\ tasks' = tasks + 1
    /\ dialog' = "none"
    /\ UNCHANGED <<cfg, device, outsideRun>>

(* MainWindow.start_poll returning at line 337: a worker exists. *)
StartPollRejected ==
    /\ ~Idle
    /\ UNCHANGED vars

(* MainWindow.start_poll returning at line 345: load_points raised and the *)
(* message box was shown.                                                  *)
StartPollLoadError ==
    /\ Idle
    /\ Raised(load_points(rules, cfg))
    /\ dialog' = "file_error"
    /\ UNCHANGED <<cfg, device, points, batches, running, pc, client, bi,
                   batch_data, reads, header, row, worker, calls, late_rows,
                   log, tasks, outsideRun>>

(* One row of the config sheet is rewritten on disk after a start that     *)
(* failed on the sheet; start_poll reads the file anew each time.          *)
EditConfig ==
    /\ dialog = "file_error"
    /\ \E i \in 1..Len(cfg), r \in SessionRows :
          /\ r # cfg[i]
          /\ cfg' = [cfg EXCEPT ![i] = r]
    /\ UNCHANGED <<device, points, batches, running, pc, client, bi,
                   batch_data, reads, header, row, worker, calls, late_rows,
                   log, tasks, dialog, outsideRun>>

(* MainWindow.stop_poll, and closeEvent, which makes the same call. *)
StopPoll ==
    /\ worker # "None"
    /\ running' = FALSE
    /\ PlanKept
    /\ UNCHANGED <<cfg, device, pc, client, bi, batch_data, reads, header,
                   row, worker, calls, late_rows, log, tasks, dialog,
                   outsideRun>>

(* client.connect() returns or raises: on failure run returns through      *)
(* finally; on success the file notice is logged, the header row is        *)
(* written and the loop is entered.                                        *)
ConnectReturns ==
    /\ pc = "connect"
    /\ IF device.link = "fault"
       THEN /\ header' = header
            /\ Finish(batch_data, reads, Append(log, "exception"))
       ELSE IF ConnectOk(device.link)
       THEN /\ header' = Labels(points)
            /\ LoopHead(Append(log, "file"))
       ELSE /\ header' = header
            /\ Finish(batch_data, reads, Append(log, "connect_failed"))
    /\ PlanKept
    /\ UNCHANGED <<cfg, device, running, dialog, outsideRun>>

(* The awaited read of batch bi returns: its result is stored under        *)
(* (method, start); then the next read is issued, or after the last batch  *)
(* the row is built and written and run sleeps.  A raised exception leaves *)
(* the loop.                                                               *)
ReadReturns ==
    /\ pc = "read"
    /\ \E out \in ReadOutcomes :
          LET b == batches[bi]
              key == <<b.method, b.start>>
              bd2 == IF out = "error" THEN Put(batch_data, key, EmptyDict)
                     ELSE IF out = "short"
                     THEN Put(batch_data, key, ReadData(b, b.count - 1))
                     ELSE Put(batch_data, key, ReadData(b, b.count))
              reads2 == Append(reads, out)
          IN  IF Fatal(out)
              THEN Finish(batch_data, reads2, Append(log, "exception"))
              ELSE IF bi < Len(batches)
              THEN /\ Suspend("read", client, bi + 1, bd2, reads2, row, worker)
                   /\ calls' = Append(calls, CallOf(batches[bi + 1]))
                   /\ UNCHANGED <<late_rows, log, tasks>>
              ELSE IF RowRaises
              THEN Finish(bd2, reads2, Append(log, "exception"))
              ELSE /\ WriteRow(bd2, reads2, log)
                   /\ calls' = calls
    /\ PlanKept
    /\ UNCHANGED <<cfg, device, running, header, dialog, outsideRun>>

(* asyncio.sleep returns and the loop test follows. *)
SleepReturns ==
    /\ pc = "sleep"
    /\ LoopHead(log)
    /\ PlanKept
    /\ UNCHANGED <<cfg, device, running, header, dialog, outsideRun>>

Next ==
    \/ StartPoll
    \/ StartPollRejected
    \/ StartPollLoadError
    \/ EditConfig
    \/ StopPoll
    \/ ConnectReturns
    \/ ReadReturns
    \/ SleepReturns

Spec == Init /\ [][Next]_vars

(* The session over a config sheet that stays as it is, of at most MaxLive *)
(* rows.  The event loop resumes run when an awaited read or the sleep     *)
(* completes.                                                              *)
MaxLive == 2

LiveRows ==
    {CfgRow("D", 100, NumCell(16)), CfgRow("D", 101, NumCell(16)),
     CfgRow("M", 0, NaNCell), CfgRow("Q", 0, NaNCell)}

LiveInit ==
    /\ Init
    /\ Len(cfg) <= MaxLive
    /\ \A i \in 1..Len(cfg) : cfg[i] \in LiveRows

LiveNext ==
    \/ StartPoll
    \/ StartPollRejected
    \/ StartPollLoadError
    \/ StopPoll
    \/ ConnectReturns
    \/ ReadReturns
    \/ SleepReturns

SpecLive ==
    /\ LiveInit
    /\ [][LiveNext]_vars
    /\ WF_vars(ReadReturns)
    /\ WF_vars(SleepReturns)

(* Sessions one after another: the first over a sheet of at most           *)
(* MaxRestart rows of RestartRows; once a run has ended, one row of the    *)
(* sheet it was started on may be rewritten on disk with one of EditRows   *)
(* before the next start.  Every row here loads, so no start fails on the  *)
(* file.                                                                   *)
MaxRestart == 2

RestartRows ==
    {CfgRow("D", 100, NumCell(16)), CfgRow("D", 101, NumCell(16))}

EditRows ==
    RestartRows \cup {CfgRow("M", 0, NaNCell), CfgRow("D", 100, NaNCell)}

RestartInit ==
    /\ Init
    /\ Len(cfg) \in 1..MaxRestart
    /\ \A i \in 1..Len(cfg) : cfg[i] \in RestartRows

EditConfigAfterRun ==
    /\ pc = "done"
    /\ points = load_points(rules, cfg).ret
    /\ \E i \in 1..Len(cfg), r \in EditRows :
          /\ r # cfg[i]
          /\ cfg' = [cfg EXCEPT ![i] = r]
    /\ UNCHANGED <<device, points, batches, running, pc, client, bi,
                   batch_data, reads, header, row, worker, calls, late_rows,
                   log, tasks, dialog, outsideRun>>

RestartNext ==
    \/ StartPoll
    \/ StartPollRejected
    \/ EditConfigAfterRun
    \/ StopPoll
    \/ ConnectReturns
    \/ ReadReturns
    \/ SleepReturns

SpecRestart == RestartInit /\ [][RestartNext]_vars

----------------------------------------------------------------------------
(* Claims about plc_to_modbus *)

QuerySegs ==
    IF MapBuilt /\ query.mem \in DOMAIN mapping THEN mapping[query.mem] ELSE <<>>

InSegment(seg, a) ==
    seg.plc_base <= a /\ a < seg.plc_base + seg.count

QueryCovered ==
    \E i \in 1..Len(QuerySegs) : InSegment(QuerySegs[i], query.plc_addr)

(* C1: whenever plc_to_modbus is called with an address that lies inside   *)
(* some segment of the category, it returns an offset, and the offset is   *)
(* mb_base + (addr - plc_base) of a segment that holds the address; with   *)
(* the single segment {100, 0, 5}, address 102 resolves to 2.              *)
C1_ResolveInsideSegment ==
    (resolved # NoCall /\ QueryCovered) =>
        /\ Returned(resolved)
        /\ \E i \in 1..Len(QuerySegs) :
              /\ InSegment(QuerySegs[i], query.plc_addr)
              /\ resolved.ret =
                   QuerySegs[i].mb_base + (query.plc_addr - QuerySegs[i].plc_base)
        /\ (QuerySegs = <<[plc_base |-> 100, mb_base |-> 0, count |-> 5]>>
              /\ query.plc_addr = 102) => resolved.ret = 2

C1_Witness ==
    /\ resolved # NoCall
    /\ QuerySegs = <<[plc_base |-> 100, mb_base |-> 0, count |-> 5]>>
    /\ query.plc_addr = 102
    /\ Returned(resolved)
    /\ resolved.ret = 2

(* C2: plc_to_modbus raises, and returns no offset, whenever the category  *)
(* has no segments in the mapping or the address lies outside every        *)
(* segment of the category (one past a segment's end included; a segment   *)
(* whose count is <= 0 holds no address).                                  *)
C2_ResolveFailsOutside ==
    (resolved # NoCall /\ ~QueryCovered) =>
        /\ Raised(resolved)
        /\ ~Returned(resolved)
        /\ resolved.raised \in {"KeyError", "ValueError"}

C2_Witness ==
    /\ resolved # NoCall
    /\ QuerySegs = <<[plc_base |-> 100, mb_base |-> 0, count |-> 5]>>
    /\ query.plc_addr = 105
    /\ Raised(resolved)

----------------------------------------------------------------------------
(* Claims about _decode_value *)

Decoded == val # NoCall
DecIdx == pt.offset - data.start

(* The point is a register point and its words lie inside the result. *)
S32InRange ==
    /\ Decoded
    /\ pt.method = "read_holding_registers"
    /\ pt.size = 2
    /\ 0 <= DecIdx
    /\ DecIdx + 1 < Len(data.regs)

S16InRange ==
    /\ Decoded
    /\ pt.method = "read_holding_registers"
    /\ pt.fmt = "s16"
    /\ 0 <= DecIdx
    /\ DecIdx < Len(data.regs)

(* C9: a 2-unit register point at index i of the result, with low =        *)
(* regs[i] and high = regs[i+1], decodes to combined = low | (high << 16)  *)
(* when combined < 2^31 and to combined - 2^32 otherwise: the value is     *)
(* non-negative exactly when high < 2^15, its low 16 bits are low and its  *)
(* next 16 bits are high (the signed 32-bit integer congruent to combined  *)
(* modulo 2^32); low 0xFFFF with high 0xFFFF decodes to -1.                *)
C9_Int32Decode ==
    S32InRange =>
        LET low == data.regs[DecIdx + 1]
            high == data.regs[DecIdx + 2]
        IN  /\ Returned(val)
            /\ val.ret % 65536 = low
            /\ (val.ret \div 65536) % 65536 = high
            /\ (high < 32768) => (val.ret >= 0 /\ val.ret = high * 65536 + low)
            /\ (high >= 32768) => val.ret < 0
            /\ (low = 65535 /\ high = 65535) => val.ret = -1

C9_Witness ==
    /\ S32InRange
    /\ data.regs[DecIdx + 1] = 65535
    /\ data.regs[DecIdx + 2] = 65535
    /\ Returned(val)
    /\ val.ret = -1

(* C10: every 16-bit pattern v read for an s16 point decodes to v when     *)
(* v < 32768 and to v - 65536 otherwise.                                   *)
C10_Int16Decode ==
    S16InRange =>
        LET v == data.regs[DecIdx + 1]
        IN  /\ Returned(val)
            /\ val.ret = IF v < 32768 THEN v ELSE v - 65536

C10_Witness ==
    /\ S16InRange
    /\ data.regs[DecIdx + 1] = 40000
    /\ Returned(val)
    /\ val.ret = -25536

(* The point's index lies inside the result. *)
BitInRange ==
    /\ Decoded
    /\ pt.fmt = "bit"
    /\ 0 <= DecIdx
    /\ DecIdx < Len(data.bits)

U16InRange ==
    /\ Decoded
    /\ pt.fmt = "u16"
    /\ 0 <= DecIdx
    /\ DecIdx < Len(data.regs)

(* C23: a bit point decodes to 1 or 0 as the element at index              *)
(* offset - start of the result is set or not, and a u16 point decodes to  *)
(* the word at that index as it is, in 0..65535, words with bit 15 set     *)
(* included.                                                               *)
C23_BitAndUInt16Unmodified ==
    /\ BitInRange =>
          /\ Returned(val)
          /\ val.ret = IF data.bits[DecIdx + 1] THEN 1 ELSE 0
    /\ U16InRange =>
          /\ Returned(val)
          /\ val.ret = data.regs[DecIdx + 1]
          /\ val.ret \in 0..65535

(* A u16 point at index 1 of the result read the word 0xFFFF. *)
C23_Witness ==
    /\ U16InRange
    /\ DecIdx = 1
    /\ data.regs[2] = 65535
    /\ Returned(val)
    /\ val.ret = 65535

----------------------------------------------------------------------------
(* Claims about the poll loop *)

(* The row of the current tick has been written: run is at its sleep. *)
RowWritten == pc = "sleep"

(* The value a point has in the PLC, read off the device contents at the   *)
(* point's own offset.                                                     *)
DeviceValue(p) ==
    IF p.fmt = "bit"
    THEN IF p.method = "read_coils"
         THEN (IF device.coils[p.offset] THEN 1 ELSE 0)
         ELSE (IF device.inputs[p.offset] THEN 1 ELSE 0)
    ELSE IF p.fmt = "u16" THEN device.regs[p.offset]
    ELSE IF p.fmt = "s16"
    THEN (IF device.regs[p.offset] < 32768
          THEN device.regs[p.offset]
          ELSE device.regs[p.offset] - 65536)
    ELSE (IF device.regs[p.offset + 1] < 32768
          THEN device.regs[p.offset + 1] * 65536 + device.regs[p.offset]
          ELSE (device.regs[p.offset + 1] - 65536) * 65536
               + device.regs[p.offset])

Members(k) == {batches[k].points[m] : m \in 1..Len(batches[k].points)}

ErrorInTick == \E k \in 1..Len(reads) : reads[k] = "error"

(* C6: in a tick in which the read of one batch returned a protocol error, *)
(* every batch of the plan was still read, and every member of a batch     *)
(* whose read succeeded (with a full result) has its real decoded value in *)
(* the tick's row.                                                         *)
C6_SiblingIsolation ==
    (RowWritten /\ ErrorInTick) =>
        /\ Len(reads) = Len(batches)
        /\ \A k \in 1..Len(batches) :
              reads[k] = "ok" =>
                  \A p \in Members(k) : row[p.id] = DeviceValue(p)

(* C7: in a tick in which the read of a batch returned a protocol error,   *)
(* every member of that batch has the sentinel -1 in the tick's row, and   *)
(* the worker is still in its loop with the transport open.                *)
C7_ErrorBatchSentinel ==
    (RowWritten /\ ErrorInTick) =>
        /\ \A k \in 1..Len(batches) :
              reads[k] = "error" => \A p \in Members(k) : row[p.id] = -1
        /\ worker = "ModbusWorker"
        /\ client = "connected"

Footprint(p) == p.offset .. (p.offset + p.size - 1)

DisjointFootprints ==
    \A i, j \in 1..Len(points) :
        (i # j /\ points[i].method = points[j].method) =>
            Footprint(points[i]) \cap Footprint(points[j]) = {}

AllReadsOk == \A k \in 1..Len(reads) : reads[k] = "ok"

(* C8: every written row has one value per point of the session, the i-th  *)
(* value being that of the i-th declared point (the sentinel or the        *)
(* point's own value in the PLC; the latter when every read of the tick    *)
(* succeeded and no two footprints overlap), and the header holds the      *)
(* points' labels in the same order.                                       *)
C8_RowInDeclarationOrder ==
    RowWritten =>
        /\ Len(row) = Len(points)
        /\ Len(header) = Len(points)
        /\ \A i \in 1..Len(points) :
              /\ header[i] = <<points[i].mem, points[i].plc_addr>>
              /\ row[i] \in {-1, DeviceValue(points[i])}
              /\ (AllReadsOk /\ DisjointFootprints) =>
                     row[i] = DeviceValue(points[i])

C8_Witness ==
    /\ RowWritten
    /\ ErrorInTick
    /\ DisjointFootprints
    /\ \E i, j \in 1..Len(points) :
          /\ i < j
          /\ points[i].method = points[j].method
          /\ points[i].offset > points[j].offset
          /\ row[i] = DeviceValue(points[i])
          /\ row[j] = DeviceValue(points[j])
          /\ row[i] # row[j]
          /\ row[i] # -1
          /\ row[j] # -1

ShortInTick == \E k \in 1..Len(reads) : reads[k] = "short"

(* C19: in a tick in which the read of a batch returned fewer elements     *)
(* than the batch's count, every member of that batch has the sentinel -1  *)
(* in the tick's row, and the worker is still in its loop.                 *)
C19_ShortResultSentinel ==
    (RowWritten /\ DisjointFootprints /\ ShortInTick) =>
        /\ \A k \in 1..Len(batches) :
              reads[k] = "short" => \A p \in Members(k) : row[p.id] = -1
        /\ worker = "ModbusWorker"
        /\ client = "connected"

(* The read calls of a whole tick, from the plan. *)
PlanCalls ==
    [k \in 1..Len(batches) |->
        <<batches[k].method, batches[k].start, batches[k].count>>]

(* C20: the calls made in a tick are those of the plan's batches, one per  *)
(* batch and in plan order, the whole list once the tick's row is written; *)
(* a call is made only when every earlier call of the session has          *)
(* returned, so at most one call is pending, and exactly while run awaits  *)
(* a read.                                                                 *)
C20_OneReadPerBatchInOrder ==
    /\ Len(calls) <= Len(batches)
    /\ calls = SubSeq(PlanCalls, 1, Len(calls))
    /\ RowWritten => calls = PlanCalls
    /\ Len(calls) - Len(reads) = (IF pc = "read" THEN 1 ELSE 0)
    /\ pc = "read" => bi = Len(calls)

(* A tick of three batches has been read to its row. *)
C20_Witness ==
    /\ RowWritten
    /\ Len(batches) = 3
    /\ Len(reads) = 3
    /\ calls = PlanCalls

----------------------------------------------------------------------------
(* Claims about the session: stop, start, connect and failures *)

SessionExists == worker # "None"
StopRequested == SessionExists /\ ~running
InLoop == pc \in {"read", "sleep"}

(* The step is the return of the awaited read with a response. *)
ReadReturned ==
    /\ Len(reads') = Len(reads) + 1
    /\ reads'[Len(reads')] # "raise"

(* C11: stop() takes effect only at the loop test between ticks.  The call *)
(* itself changes nothing but the flag; with the flag cleared, a tick in   *)
(* flight goes on read by read to its row (only a raised exception ends    *)
(* it), no tick begins at the loop test after the sleep, and at most one   *)
(* row is written after the call.                                          *)
C11_CooperativeStop ==
    [][/\ (running /\ ~running') =>
              UNCHANGED <<pc, bi, calls, reads, batch_data, row, client,
                          worker, log, late_rows>>
       /\ StopRequested =>
              /\ (pc = "read" /\ bi < Len(batches) /\ ReadReturned)
                     => (pc' = "read" /\ bi' = bi + 1
                         /\ Len(calls') = Len(calls) + 1)
              /\ (pc = "read" /\ bi = Len(batches) /\ ReadReturned)
                     => (pc' = "sleep" /\ Len(row') = Len(points)
                         /\ late_rows' = late_rows + 1)
              /\ pc = "sleep" => (pc' = "done" /\ late_rows' = late_rows)
              /\ late_rows' <= 1]_vars

(* stop() was called during a tick with several reads, and the tick's row  *)
(* has been written since.                                                 *)
C11_Witness ==
    /\ StopRequested
    /\ pc = "sleep"
    /\ late_rows = 1
    /\ Len(reads) >= 2

(* C12: once stop() has been called on a session that is in its loop, and  *)
(* the pending read or sleep returns, run leaves the loop, closes the      *)
(* client and emits finished, and MainWindow.worker is None again.         *)
C12_StopLiveness ==
    (StopRequested /\ InLoop)
        ~> (pc = "done" /\ client \in CloseOutcomes /\ worker = "None"
            /\ Last(log) = "finished")

C12_Witness ==
    /\ StopRequested
    /\ pc = "read"
    /\ bi < Len(batches)

(* C13: at most one run coroutine exists at any time, and it exists        *)
(* exactly while MainWindow.worker is set: a start_poll that finds a       *)
(* worker creates nothing.                                                 *)
C13_SingleSession ==
    /\ tasks <= 1
    /\ tasks = 1 <=> SessionExists
    /\ tasks = 1 <=> pc \in {"connect", "read", "sleep"}

(* A session that is still stopping, where a start click is rejected. *)
C13_Witness ==
    /\ StopRequested
    /\ tasks = 1
    /\ pc = "read"
    /\ ENABLED StartPollRejected

(* C14: when client.connect() fails (returns False, or raises), run logs   *)
(* the failure, makes no read call, writes neither the header nor a row,   *)
(* and ends with the client closed and MainWindow.worker None.             *)
C14_ConnectFailure ==
    device.link # "up" =>
        /\ pc \in {"none", "connect", "done"}
        /\ header = <<>> /\ calls = <<>> /\ reads = <<>> /\ row = <<>>
        /\ pc = "done" =>
              /\ log = <<IF device.link = "refused" THEN "connect_failed"
                         ELSE "exception", "finished">>
              /\ client \in CloseOutcomes
              /\ worker = "None"
              /\ tasks = 0

(* A session with points whose connect returned False. *)
C14_Witness ==
    /\ device.link = "refused"
    /\ pc = "done"
    /\ points # <<>>

(* C15: once a read call has raised, the run is over: the raising call is  *)
(* the last call made, no row was written in its tick, the exception is    *)
(* logged, the client is closed and MainWindow.worker is None.             *)
C15_FatalFault ==
    (\E k \in 1..Len(reads) : reads[k] = "raise") =>
        /\ pc = "done"
        /\ \A k \in 1..Len(reads) : reads[k] = "raise" <=> k = Len(reads)
        /\ Len(calls) = Len(reads)
        /\ row = <<>>
        /\ log = <<"file", "exception", "finished">>
        /\ client \in CloseOutcomes
        /\ worker = "None"
        /\ tasks = 0

(* A read raised after another read of the tick had returned and while a   *)
(* batch was still to be read.                                             *)
C15_Witness ==
    /\ Len(reads) = 2
    /\ reads[2] = "raise"
    /\ Len(batches) = 3

(* A config row whose address no segment of the mapping sheet holds, or    *)
(* whose memory type has no access method.                                 *)
RowUnmapped(r) ==
    \A k \in 1..Len(rules) :
        \/ Upper(rules[k].mem) # Upper(r.mem)
        \/ r.plc_addr < rules[k].plc_addr
        \/ r.plc_addr >= rules[k].plc_addr + rules[k].assignment_points

RowWithoutMethod(r) == Upper(r.mem) \notin {"M", "L", "Y", "X", "D"}

BadSheet ==
    \E i \in 1..Len(cfg) : RowUnmapped(cfg[i]) \/ RowWithoutMethod(cfg[i])

(* C16: on a sheet with a row that is unmapped or has no access method,    *)
(* load_points raises (it returns no list), and no worker, run coroutine   *)
(* or client exists; once start_poll has shown its error box and the sheet *)
(* is good, the next start_poll passes its tests (no worker, the load      *)
(* returns) and starts a session.                                          *)
C16_LoadAllOrNothing ==
    /\ BadSheet =>
          /\ Raised(load_points(rules, cfg))
          /\ ~Returned(load_points(rules, cfg))
          /\ worker = "None" /\ tasks = 0 /\ pc = "none" /\ client = "none"
          /\ points = <<>> /\ batches = <<>>
    /\ (dialog = "file_error" /\ ~BadSheet) =>
          /\ worker = "None" /\ tasks = 0
          /\ Returned(load_points(rules, cfg))
          /\ Len(load_points(rules, cfg).ret) = Len(cfg)

(* start_poll was rejected on a sheet whose first row is good. *)
C16_Witness ==
    /\ dialog = "file_error"
    /\ BadSheet
    /\ Len(cfg) >= 2
    /\ ~RowUnmapped(cfg[1]) /\ ~RowWithoutMethod(cfg[1])

----------------------------------------------------------------------------
(* Claims about the mapping as a whole *)

SegsFor(mem) ==
    IF MapBuilt /\ mem \in DOMAIN mapping THEN mapping[mem] ELSE <<>>

(* The ranges [b1, b1 + n1) and [b2, b2 + n2) have an element in common. *)
RangesMeet(b1, n1, b2, n2) ==
    n1 > 0 /\ n2 > 0 /\ b1 < b2 + n2 /\ b2 < b1 + n1

LogicalDisjoint(segs) ==
    \A i, j \in 1..Len(segs) :
        i < j => ~RangesMeet(segs[i].plc_base, segs[i].count,
                             segs[j].plc_base, segs[j].count)

PhysicalDisjoint(segs) ==
    \A i, j \in 1..Len(segs) :
        i < j => ~RangesMeet(segs[i].mb_base, segs[i].count,
                             segs[j].mb_base, segs[j].count)

Covered(mem, a) ==
    \E i \in 1..Len(SegsFor(mem)) : InSegment(SegsFor(mem)[i], a)

OneToOne(mem) ==
    \A a1, a2 \in QueryAddrs :
        (a1 # a2 /\ Covered(mem, a1) /\ Covered(mem, a2))
            => plc_to_modbus(mem, a1, mapping) # plc_to_modbus(mem, a2, mapping)

(* C17 as stated: for every category whose segments have pairwise disjoint *)
(* logical ranges, two distinct covered addresses never resolve to the     *)
(* same offset.                                                            *)
C17_OneToOneOnDisjointLogical ==
    MapBuilt =>
        \A mem \in QueryMems : LogicalDisjoint(SegsFor(mem)) => OneToOne(mem)

(* C17 amended: for every category whose segments have pairwise disjoint   *)
(* logical ranges and pairwise disjoint physical ranges, two distinct      *)
(* covered addresses never resolve to the same offset.                     *)
C17_OneToOneOnDisjointBoth ==
    MapBuilt =>
        \A mem \in QueryMems :
            (LogicalDisjoint(SegsFor(mem)) /\ PhysicalDisjoint(SegsFor(mem)))
                => OneToOne(mem)

(* An address was resolved in a category of two segments of two addresses  *)
(* each, disjoint in both ranges.                                          *)
C17_Witness ==
    /\ MapBuilt
    /\ Returned(resolved)
    /\ Len(SegsFor(query.mem)) = 2
    /\ \A i \in 1..2 : SegsFor(query.mem)[i].count = 2
    /\ LogicalDisjoint(SegsFor(query.mem))
    /\ PhysicalDisjoint(SegsFor(query.mem))

----------------------------------------------------------------------------
(* Claims about the type of a point *)

Loaded == PlanBuilt /\ Len(points) = Len(cfg)

(* The hint of a type cell as written: nothing for an empty cell, the      *)
(* integer text for a number, the text itself for a string.                *)
HintAsWritten(c) ==
    IF c.kind = "nan" THEN "absent"
    ELSE IF c.kind = "num" THEN (IF c.val = 16 THEN "16" ELSE "32")
    ELSE c.text

(* The hint trimmed and in lower case. *)
HintNormal(c) ==
    LET t == HintAsWritten(c)
    IN  CASE t \in {"S16", " s16 "} -> "s16"
          [] t = "INT16" -> "int16"
          [] t = "U16" -> "u16"
          [] t = "UINT16" -> "uint16"
          [] OTHER -> t

(* The encoding the claim gives to a row whose hint reads h. *)
EncodingFor(mem, h) ==
    IF mem \in {"D", "d"}
    THEN IF h \in {"16", "s16", "int16"} THEN [size |-> 1, fmt |-> "s16"]
         ELSE IF h \in {"u16", "uint16"} THEN [size |-> 1, fmt |-> "u16"]
         ELSE [size |-> 2, fmt |-> "s32"]
    ELSE [size |-> 1, fmt |-> "bit"]

HasEncoding(p, e) == p.size = e.size /\ p.fmt = e.fmt

----------------------------------------------------------------------------
(* Claims about the structure of the batches *)

Methods == {points[i].method : i \in PointIdx}

BatchesFor(m) == {k \in BatchIdx : batches[k].method = m}

(* The offsets that some point of the method occupies. *)
Occupied(m) ==
    UNION {Footprint(points[i]) : i \in {j \in PointIdx : points[j].method = m}}

(* The first offsets of the maximal gap-free runs of occupied offsets. *)
RunStarts(m) == {a \in Occupied(m) : a - 1 \notin Occupied(m)}

BatchRange(k) == batches[k].start .. (batches[k].start + batches[k].count - 1)

(* Width-1 points at offsets 10, 11 and 13 of one method, and no other. *)
ExamplePoints ==
    /\ Len(points) = 3
    /\ \A i \in 1..3 : points[i].size = 1 /\ points[i].method = points[1].method
    /\ {points[i].offset : i \in 1..3} = {10, 11, 13}

(* C21: on points with pairwise disjoint footprints within a method, the   *)
(* batches of a method are the maximal gap-free runs of its footprints: no *)
(* batch starts where another one ends, there is one batch per run (fewer  *)
(* contiguous ranges cannot cover the points), every batch covers occupied *)
(* offsets only, and offsets 10, 11, 13 give (10, 2) and (13, 1).          *)
C21_GreedyMergeMaximal ==
    (PlanBuilt /\ DisjointFootprints) =>
        /\ \A m \in Methods :
              /\ \A j, k \in BatchesFor(m) :
                    batches[j].start + batches[j].count # batches[k].start
              /\ Cardinality(BatchesFor(m)) = Cardinality(RunStarts(m))
              /\ {batches[k].start : k \in BatchesFor(m)} = RunStarts(m)
              /\ UNION {BatchRange(k) : k \in BatchesFor(m)} = Occupied(m)
        /\ ExamplePoints =>
              Triples(batches) = {<<points[1].method, 10, 2>>,
                                  <<points[1].method, 13, 1>>}

C21_Witness ==
    /\ PlanBuilt
    /\ DisjointFootprints
    /\ ExamplePoints
    /\ Len(batches) = 2

RECURSIVE SumSizes(_)
SumSizes(ps) ==
    IF ps = <<>> THEN 0 ELSE SumSizes(Front(ps)) + Last(ps).size

(* The places (batch, position) at which a point is a member. *)
MemberAt(p) ==
    {<<k, n>> \in BatchIdx \X (1..Len(points)) :
        n <= Len(batches[k].points) /\ batches[k].points[n] = p}

(* C22: every batch is non-empty, starts at its first member's offset, has *)
(* each later member start where the previous one ends, has the sum of its *)
(* members' sizes as count and each member's footprint inside its range,   *)
(* and members have the batch's method; every point is a member at exactly *)
(* one place.                                                              *)
C22_BatchStructure ==
    PlanBuilt =>
        /\ \A k \in BatchIdx :
              LET ps == batches[k].points
              IN  /\ ps # <<>>
                  /\ batches[k].start = ps[1].offset
                  /\ \A n \in 2..Len(ps) :
                        /\ ps[n].offset = ps[n - 1].offset + ps[n - 1].size
                        /\ ps[n].offset > ps[n - 1].offset
                  /\ batches[k].count = SumSizes(ps)
                  /\ \A n \in 1..Len(ps) :
                        /\ ps[n].method = batches[k].method
                        /\ batches[k].start <= ps[n].offset
                        /\ ps[n].offset + ps[n].size
                               <= batches[k].start + batches[k].count
        /\ \A i \in PointIdx : Cardinality(MemberAt(points[i])) = 1

(* A plan over overlapping footprints with a batch of two members. *)
C22_Witness ==
    /\ PlanBuilt
    /\ ~DisjointFootprints
    /\ \E k \in BatchIdx : Len(batches[k].points) = 2

----------------------------------------------------------------------------
(* Claims about overlapping segments *)

(* The rows of the mapping sheet, by index, that are of the query's        *)
(* category and hold its address.                                          *)
CoveringRows ==
    {k \in 1..Len(rules) :
        /\ Upper(rules[k].mem) = query.mem
        /\ rules[k].plc_addr <= query.plc_addr
        /\ query.plc_addr < rules[k].plc_addr + rules[k].assignment_points}

(* The covering row of smallest plc_addr, the first listed among equals. *)
WinningRow ==
    CHOOSE k \in CoveringRows :
        \A j \in CoveringRows :
            \/ rules[k].plc_addr < rules[j].plc_addr
            \/ rules[k].plc_addr = rules[j].plc_addr /\ k <= j

RowsOfMem(m) == {k \in 1..Len(rules) : Upper(rules[k].mem) = m}

(* C24: an address that one or several rows of its category hold resolves  *)
(* to the offset of the holding row with the smallest plc_addr, the first  *)
(* listed among equal ones; the mapping keeps one segment per row, of the  *)
(* row's own three numbers, whether the rows overlap or not.               *)
C24_FirstMatchOnOverlap ==
    MapBuilt =>
        /\ (resolved # NoCall /\ CoveringRows # {}) =>
              /\ Returned(resolved)
              /\ resolved.ret =
                   rules[WinningRow].start_number
                     + (query.plc_addr - rules[WinningRow].plc_addr)
        /\ \A m \in DOMAIN mapping :
              /\ Len(mapping[m]) = Cardinality(RowsOfMem(m))
              /\ \A k \in RowsOfMem(m) :
                    \E i \in 1..Len(mapping[m]) :
                        /\ mapping[m][i].plc_base = rules[k].plc_addr
                        /\ mapping[m][i].mb_base = rules[k].start_number
                        /\ mapping[m][i].count = rules[k].assignment_points

(* An address held by two rows that give it different offsets. *)
C24_Witness ==
    /\ MapBuilt
    /\ Returned(resolved)
    /\ Cardinality(CoveringRows) = 2
    /\ \E j \in CoveringRows :
          rules[j].start_number + (query.plc_addr - rules[j].plc_addr)
              # resolved.ret

----------------------------------------------------------------------------
(* Claims about the life of the plan *)

(* C25: while a worker exists, no step (a read returning with data, with   *)
(* an error or raising, a sleep ending, a stop request, a rejected start)  *)
(* changes its points or its batches: they stay what construction made.    *)
C25_PlanNeverRecomputed ==
    [][worker # "None" => (points' = points /\ batches' = batches)]_vars

(* A stopped worker of two batches that has met a read error and written   *)
(* a row since the stop.                                                   *)
C25_Witness ==
    /\ worker # "None"
    /\ ~running
    /\ late_rows > 0
    /\ Len(batches) >= 2
    /\ \E i \in 1..Len(reads) : reads[i] = "error"
    /\ batches = _make_batches(points)

----------------------------------------------------------------------------
(* Claims about the sentinel *)



(* The words of the point in the PLC are all 0xFFFF. *)
ReadsAllOnes(p) ==
    /\ p.fmt \in {"s16", "s32"}
    /\ \A a \in Footprint(p) : a \in DOMAIN device.regs /\ device.regs[a] = 65535

(* C26: in a written row (of points with disjoint footprints) a member of  *)
(* a batch whose read failed has -1, and so has an s16 point reading       *)
(* 0xFFFF and an s32 point reading 0xFFFF in both words when its batch's   *)
(* read succeeded: -1 in a row does not tell that the read failed.         *)
C26_SentinelConflation ==
    (RowWritten /\ DisjointFootprints) =>
        \A k \in 1..Len(batches) : \A p \in Members(k) :
            /\ reads[k] = "error" => row[p.id] = -1
            /\ (reads[k] = "ok" /\ ReadsAllOnes(p)) =>
                  /\ row[p.id] = -1
                  /\ row[p.id] = DeviceValue(p)

(* One row holds -1 twice: for a point whose batch's read failed and for   *)
(* a signed point whose batch's read succeeded.                            *)
C26_Witness ==
    /\ RowWritten
    /\ DisjointFootprints
    /\ \E k1, k2 \in 1..Len(batches) :
          /\ reads[k1] = "error"
          /\ reads[k2] = "ok"
          /\ \E q \in Members(k1) : row[q.id] = -1
          /\ \E p \in Members(k2) :
                /\ ReadsAllOnes(p)
                /\ p.fmt = "s32"
                /\ row[p.id] = -1

(* The same with a 16-bit point. *)
C26_WitnessS16 ==
    /\ RowWritten
    /\ DisjointFootprints
    /\ \E k \in 1..Len(batches) : \E p \in Members(k) :
          /\ reads[k] = "ok"
          /\ p.fmt = "s16"
          /\ ReadsAllOnes(p)
          /\ row[p.id] = -1

----------------------------------------------------------------------------
(* Claims about the lookup of a point's batch *)

(* What the read of batch k of the finished tick gave. *)
ResultOf(k) ==
    IF reads[k] = "ok" THEN ReadData(batches[k], batches[k].count)
    ELSE IF reads[k] = "short"
    THEN ReadData(batches[k], batches[k].count - 1)
    ELSE EmptyDict

(* C27: for every point, _batch_start gives the start of the batch that    *)
(* has the point as a member, the point's footprint lies within that       *)
(* batch's count, and once the tick's row is written the result stored     *)
(* under (method, start) is that of the batch's own read; in a tick whose  *)
(* reads all succeeded every point is decoded from a result that was       *)
(* found and long enough, and its row value is its value in the PLC.       *)
C27_LookupAgreesWithMembership ==
    worker # "None" =>
        /\ \A k \in 1..Len(batches) : \A p \in Members(k) :
              /\ Returned(_batch_start(p))
              /\ _batch_start(p).ret = batches[k].start
              /\ p.offset - batches[k].start + p.size <= batches[k].count
              /\ RowWritten =>
                    Get(batch_data, <<p.method, batches[k].start>>)
                        = ResultOf(k)
        /\ (RowWritten /\ AllReadsOk) =>
              \A i \in 1..Len(points) :
                  LET bdat == Get(batch_data, <<points[i].method,
                                                _batch_start(points[i]).ret>>)
                  IN  /\ DOMAIN bdat # {}
                      /\ Returned(_decode_value(points[i], bdat))
                      /\ row[i] = DeviceValue(points[i])

----------------------------------------------------------------------------
(* Claims about the end of run *)

FinishedCount == Cardinality({i \in 1..Len(log) : log[i] = "finished"})

RunAlive == pc \in {"connect", "read", "sleep"}

RunEnded == pc = "done"

(* C28: while run is alive close() has not been called and finished has    *)
(* not been emitted; when run has ended, by whichever path and whether     *)
(* close() returned or raised, close() has been called and finished has    *)
(* been emitted once, as the last thing run did, with no read pending;     *)
(* and after that no call, read result, row or notice of that run follows. *)
C28_CloseAndFinishedOnce ==
    /\ [](/\ RunAlive =>
               /\ FinishedCount = 0
               /\ client \notin CloseOutcomes
          /\ RunEnded =>
               /\ client \in CloseOutcomes
               /\ FinishedCount = 1
               /\ Last(log) = "finished"
               /\ Len(calls) = Len(reads))
    /\ [][(RunEnded /\ RunEnded') =>
              UNCHANGED <<client, calls, reads, row, header, late_rows,
                          log>>]_vars

(* close() raised at the end of a run that a raising read ended. *)
C28_Witness ==
    /\ RunEnded
    /\ client = "close_raised"
    /\ Len(reads) >= 2
    /\ reads[Len(reads)] = "raise"
    /\ log = <<"file", "exception", "finished">>

(* close() raised at the end of a stopped run and of a refused connect. *)
C28_WitnessStop ==
    /\ RunEnded
    /\ client = "close_raised"
    /\ ~running
    /\ row # <<>>
    /\ log = <<"file", "finished">>

C28_WitnessRefused ==
    /\ RunEnded
    /\ client = "close_raised"
    /\ log = <<"connect_failed", "finished">>

----------------------------------------------------------------------------
(* The worker of v0.7.3, which reads every point by itself *)

(* test_0.7.3.py line 158: the read of one point, (offset, count=size),    *)
(* returning the whole range, an error response or one element less.       *)
PointRead(p, out) ==
    LET b == [method |-> p.method, start |-> p.offset]
    IN  IF out = "error" THEN EmptyDict
        ELSE IF out = "short" THEN ReadData(b, p.size - 1)
        ELSE ReadData(b, p.size)

(* test_0.7.3.py lines 157-171: the value of one point in a tick.  A read  *)
(* that raises, like an index past the result's end, gives -1.             *)
PointValPerPoint(p, out) ==
    LET rr == PointRead(p, out)
    IN  IF out = "raise" THEN -1
        ELSE IF out = "error" THEN -1
        ELSE IF p.method \in {"read_coils", "read_discrete_inputs"}
        THEN LET b == PyGet(rr.bits, 0)
             IN  IF Raised(b) THEN -1 ELSE (IF b.ret THEN 1 ELSE 0)
        ELSE IF p.size = 1
        THEN LET raw == PyGet(rr.regs, 0)
             IN  IF Raised(raw) THEN -1
                 ELSE IF p.fmt = "s16" THEN _u16_to_s16(raw.ret)
                 ELSE raw.ret
        ELSE LET low == PyGet(rr.regs, 0)
                 high == PyGet(rr.regs, 1)
             IN  IF Raised(low) \/ Raised(high) THEN -1
                 ELSE _u32_to_s32(ShlOr(high.ret, low.ret))

(* test_0.7.3.py lines 156-172: row_vals of a tick whose reads succeed. *)
RowValsPerPoint ==
    [i \in 1..Len(points) |-> PointValPerPoint(points[i], "ok")]

----------------------------------------------------------------------------
(* Claims about batching against per-point polling *)

(* C29: for points with pairwise disjoint footprints and a tick whose      *)
(* reads all succeed, the row of the batched worker equals, point for      *)
(* point, the row the per-point worker of v0.7.3 makes of the same points  *)
(* and the same PLC contents.                                              *)
C29_BatchingRefinesPerPoint ==
    (RowWritten /\ AllReadsOk /\ DisjointFootprints) =>
        /\ Len(row) = Len(RowValsPerPoint)
        /\ \A i \in 1..Len(points) : row[i] = RowValsPerPoint[i]

(* A row with two batches, one of them holding an s32 point and, behind    *)
(* it, a 16-bit point.                                                     *)
C29_Witness ==
    /\ RowWritten
    /\ AllReadsOk
    /\ DisjointFootprints
    /\ Len(batches) = 2
    /\ row = RowValsPerPoint
    /\ \E k \in 1..Len(batches) : \E p, q \in Members(k) :
          /\ q.fmt = "s32"
          /\ p.offset > q.offset
          /\ row[p.id] \notin {-1, 0, 1}
          /\ row[q.id] \notin {-1, 0, 1}

----------------------------------------------------------------------------
(* Claims about starting again *)

(* The step starts a session after one has ended. *)
Restarts == RunEnded /\ pc' # "done"

(* C30: when a run has ended, by whichever path, MainWindow.worker is None *)
(* again, and the start that follows makes a worker whose points are those *)
(* the sheet gives at that moment and whose batches are made of them, with *)
(* nothing left of the earlier session; while a run is alive, stopped or   *)
(* not, the worker stays set and no step starts another session or         *)
(* touches the plan.                                                       *)
C30_Restartable ==
    /\ [](/\ RunEnded => (worker = "None" /\ tasks = 0)
          /\ RunAlive => (worker = "ModbusWorker" /\ tasks = 1))
    /\ [][/\ Restarts =>
               /\ pc' = "connect"
               /\ worker' = "ModbusWorker"
               /\ running'
               /\ tasks' = 1
               /\ Returned(load_points(rules, cfg))
               /\ points' = load_points(rules, cfg).ret
               /\ batches' = _make_batches(points')
               /\ client' = "none"
               /\ calls' = <<>> /\ reads' = <<>> /\ row' = <<>>
               /\ log' = <<>>
          /\ worker # "None" =>
               /\ tasks' <= tasks
               /\ points' = points /\ batches' = batches
               /\ pc' = "connect" => pc = "connect"]_vars

(* A stopped session, not yet finished, over a sheet with a row that no    *)
(* first sheet has: it was started after an earlier run had ended and the  *)
(* sheet had been rewritten, and its plan is made of the sheet as          *)
(* rewritten.                                                              *)
C30_Witness ==
    /\ StopRequested
    /\ RunAlive
    /\ RowWritten
    /\ \E i \in 1..Len(points) : points[i].mem = "M"
    /\ \E i \in 1..Len(points) : points[i].fmt = "s32"
    /\ points = load_points(rules, cfg).ret
    /\ batches = _make_batches(points)

(* A run ended again after a restart, by a refused connect and by a        *)
(* raising read.                                                           *)
C30_WitnessRefused ==
    /\ RunEnded
    /\ device.link = "refused"
    /\ worker = "None"
    /\ \E i \in 1..Len(points) : points[i].mem = "M"

C30_WitnessFatal ==
    /\ RunEnded
    /\ worker = "None"
    /\ reads # <<>> /\ reads[Len(reads)] = "raise"
    /\ \E i \in 1..Len(points) : points[i].mem = "M"

====
